---- MODULE Spec2Model ----
(***************************************************************************)
(* A model of open_gopro/ble/services.py: the UUID value type, the         *)
(* Descriptor / Characteristic / Service records, the GattDB attribute     *)
(* table with its live characteristic view, and the CSV dump.              *)
(*                                                                         *)
(* Representation of Python values:                                        *)
(*   str    a TLA+ string (Len, SubSeq and \o act on it character-wise)    *)
(*   bytes  a sequence of numbers in 0..255                                *)
(*   int    where it is a UUID's integer value (up to 128 bits): the       *)
(*          big-endian base-256 digits without leading zeros (<<>> is 0);  *)
(*          attribute handles and flag masks are plain numbers             *)
(*   dict   a sequence of entries [k |-> key, v |-> value] in insertion    *)
(*          order, no two keys equal                                       *)
(*   a call's outcome is [exc |-> "" or the exception's name, ret |-> v]   *)
(***************************************************************************)
EXTENDS Integers, Sequences, FiniteSets, TLC

VARIABLES
    pc,       \* "discovery": the mapping is being built; "ready": GattDB exists
    heap,     \* the dict objects holding service mappings, by reference
    db,       \* the GattDB object: [services |-> a reference into heap]
    last,     \* the last operation performed, its argument and its outcome
    text,     \* UUID layer: the string under test
    seps      \* UUID layer: number of separators inserted into text so far

vars == <<pc, heap, db, last, text, seps>>

----------------------------------------------------------------------------
(* Bounds of the model                                                     *)

\* total number of services + characteristics + descriptors in the table
MaxAttrs == 5
\* number of ':' / '-' separators inserted into a hex string
MaxSeps == 1

----------------------------------------------------------------------------
(* Python primitives used by the module                                    *)

Ok(v) == [exc |-> "", ret |-> v]
Raise(e, dummy) == [exc |-> e, ret |-> dummy]

HexLower == "0123456789abcdef"
HexUpper == "0123456789ABCDEF"
AsciiUpper == "ABCDEFGHIJKLMNOPQRSTUVWXYZ"
AsciiLower == "abcdefghijklmnopqrstuvwxyz"

CharAt(s, i) == SubSeq(s, i, i)

\* Python's s[a:b] (0-based, end exclusive, clamped to the string)
Slice(s, a, b) == SubSeq(s, a + 1, IF b < Len(s) THEN b ELSE Len(s))

\* str.replace(c, "") for a one-character c, from position i of s on
RECURSIVE str_remove_from(_, _, _)
str_remove_from(s, c, i) ==
    IF i > Len(s) THEN ""
    ELSE IF CharAt(s, i) = c THEN str_remove_from(s, c, i + 1)
    ELSE CharAt(s, i) \o str_remove_from(s, c, i + 1)

str_remove(s, c) == str_remove_from(s, c, 1)

LowerTable ==
    [c \in {CharAt(AsciiUpper, i) : i \in 1..Len(AsciiUpper)} |->
        CharAt(AsciiLower, CHOOSE i \in 1..Len(AsciiUpper) : CharAt(AsciiUpper, i) = c)]

lower_char(c) == IF c \in DOMAIN LowerTable THEN LowerTable[c] ELSE c

\* str.lower(), from position i of s on
RECURSIVE str_lower_from(_, _)
str_lower_from(s, i) ==
    IF i > Len(s) THEN ""
    ELSE lower_char(CharAt(s, i)) \o str_lower_from(s, i + 1)

str_lower(s) == str_lower_from(s, 1)

\* bytes.hex(): two lower-case hex digits per byte
RECURSIVE bytes_hex(_)
bytes_hex(b) ==
    IF b = <<>> THEN ""
    ELSE CharAt(HexLower, (Head(b) \div 16) + 1)
         \o CharAt(HexLower, (Head(b) % 16) + 1)
         \o bytes_hex(Tail(b))

\* value of each hex digit, of either case
HexTable ==
    [c \in {CharAt(HexLower, i) : i \in 1..16} \cup {CharAt(HexUpper, i) : i \in 1..16} |->
        (CHOOSE i \in 1..16 : CharAt(HexLower, i) = c \/ CharAt(HexUpper, i) = c) - 1]

\* value of one hex digit, -1 if the character is none
hex_value(c) == IF c \in DOMAIN HexTable THEN HexTable[c] ELSE -1

\* bytes.fromhex(), from position i of s on: pairs of hex digits; ValueError
\* on a non-hex character or an odd digit (the strings of the model hold no
\* white space, which fromhex would skip)
RECURSIVE bytes_fromhex_from(_, _)
bytes_fromhex_from(s, i) ==
    IF i > Len(s) THEN Ok(<<>>)
    ELSE IF i = Len(s) \/ hex_value(CharAt(s, i)) < 0 \/ hex_value(CharAt(s, i + 1)) < 0
    THEN Raise("ValueError", <<>>)
    ELSE LET rest == bytes_fromhex_from(s, i + 2)
         IN  IF rest.exc # "" THEN rest
             ELSE Ok(<<16 * hex_value(CharAt(s, i)) + hex_value(CharAt(s, i + 1))>>
                     \o rest.ret)

bytes_fromhex(s) == bytes_fromhex_from(s, 1)

\* int.from_bytes(b, "big"): the digits of b without their leading zeros
RECURSIVE int_from_bytes(_)
int_from_bytes(b) ==
    IF b = <<>> THEN <<>>
    ELSE IF Head(b) = 0 THEN int_from_bytes(Tail(b))
    ELSE b

\* int.to_bytes(n, length, "big"): n left-padded with zeros to length bytes
int_to_bytes(n, length) ==
    IF Len(n) > length THEN Raise("OverflowError", <<>>)
    ELSE Ok([i \in 1..(length - Len(n)) |-> 0] \o n)

\* the Python int written as the number n
RECURSIVE int_literal(_)
int_literal(n) ==
    IF n = 0 THEN <<>> ELSE int_literal(n \div 256) \o <<n % 256>>

\* str(n) of a small non-negative int: its decimal digits
RECURSIVE int_str(_)
int_str(n) ==
    IF n < 10 THEN CharAt(HexLower, n + 1)
    ELSE int_str(n \div 10) \o CharAt(HexLower, (n % 10) + 1)

----------------------------------------------------------------------------
(* class UuidLength, class SpecUuidNumber, class CharProps                 *)

BIT_8 == 2
BIT_128 == 16

SpecUuidNumber ==
    << [name |-> "PRIMARY_SERVICE",       value |-> 10240],   \* 0x2800
       [name |-> "SECONDARY_SERVICE",     value |-> 10241],   \* 0x2801
       [name |-> "INCLUDE",               value |-> 10242],   \* 0x2802
       [name |-> "CHAR_DECLARATION",      value |-> 10243],   \* 0x2803
       [name |-> "CHAR_EXTENDED_PROPS",   value |-> 10496],   \* 0x2900
       [name |-> "CHAR_USER_DESCR",       value |-> 10497],   \* 0x2901
       [name |-> "CLIENT_CHAR_CONFIG",    value |-> 10498],   \* 0x2902
       [name |-> "SERVER_CHAR_CONFIG",    value |-> 10499],   \* 0x2903
       [name |-> "CHAR_FORMAT",           value |-> 10500],   \* 0x2904
       [name |-> "CHAR_AGGREGATE_FORMAT", value |-> 10501] >> \* 0x2905

\* SpecUuidNumber.<name> as a number
SpecUuidNumber_member(nm) ==
    SpecUuidNumber[CHOOSE i \in 1..Len(SpecUuidNumber) : SpecUuidNumber[i].name = nm]

\* SpecUuidNumber(n): the member whose value is the int n, else ValueError
SpecUuidNumber_call(n) ==
    IF \E i \in 1..Len(SpecUuidNumber) : int_literal(SpecUuidNumber[i].value) = n
    THEN Ok(SpecUuidNumber[CHOOSE i \in 1..Len(SpecUuidNumber) :
                               int_literal(SpecUuidNumber[i].value) = n])
    ELSE Raise("ValueError", SpecUuidNumber[1])

CharProps ==
    << [name |-> "BROADCAST",               value |-> 1],
       [name |-> "READ",                    value |-> 2],
       [name |-> "WRITE_NO_RSP",            value |-> 4],
       [name |-> "WRITE_YES_RSP",           value |-> 8],
       [name |-> "NOTIFY",                  value |-> 16],
       [name |-> "INDICATE",                value |-> 32],
       [name |-> "AUTH_SIGN_WRITE",         value |-> 64],
       [name |-> "EXTENDED",                value |-> 128],
       [name |-> "NOTIFY_ENCRYPTION_REQ",   value |-> 256],
       [name |-> "INDICATE_ENCRYPTION_REQ", value |-> 512] >>

\* flag in props
CharProps_has(props, flag) == (props \div flag) % 2 = 1

\* str(props), as IntFlag renders it up to Python 3.10 (3.11 renders the
\* number): the members set, highest first
RECURSIVE CharProps_names(_, _)
CharProps_names(props, i) ==
    IF i = 0 THEN ""
    ELSE IF CharProps_has(props, CharProps[i].value)
    THEN (LET rest == CharProps_names(props % CharProps[i].value, i - 1)
          IN  CharProps[i].name \o (IF rest = "" THEN "" ELSE "|" \o rest))
    ELSE CharProps_names(props, i - 1)

CharProps_str(props) ==
    IF props = 0 THEN "CharProps.NONE"
    ELSE "CharProps." \o CharProps_names(props, Len(CharProps))

----------------------------------------------------------------------------
(* class UUID                                                              *)

UUID(value, name) == [type |-> "UUID", value |-> value, name |-> name]

\* the other Python values a UUID is compared with
PyInt(n) == [type |-> "int", value |-> n, name |-> ""]
PyBytes(b) == [type |-> "bytes", value |-> b, name |-> ""]
PyStr(s) == [type |-> "str", value |-> s, name |-> ""]
PyNone == [type |-> "NoneType", value |-> <<>>, name |-> ""]

UUID_hash(self) == self.value

\* faulty variant: a 128-bit UUID read as its 16-bit short form
UUID_as_int_short(self) ==
    IF Len(self.value) = BIT_128 THEN int_from_bytes(SubSeq(self.value, 3, 4))
    ELSE int_from_bytes(self.value)

UUID_as_int(self) == int_from_bytes(self.value)

UUID_as_string(self) ==
    LET h == bytes_hex(self.value)
    IN  Slice(h, 0, 8) \o "-" \o Slice(h, 8, 12) \o "-" \o Slice(h, 12, 16)
        \o "-" \o Slice(h, 16, 20) \o "-" \o Slice(h, 20, Len(h))

UUID_eq(self, other) ==
    CASE other.type = "UUID"  -> self.value = other.value
      [] other.type = "int"   -> UUID_as_int(self) = other.value
      [] other.type = "bytes" -> self.value = other.value
      [] other.type = "str"   ->
            str_lower(str_remove(UUID_as_string(self), ":")) = str_lower(other.value)
      [] OTHER -> FALSE

UUID_from_int(uuid, length, name) ==
    LET b == int_to_bytes(uuid, length)
    IN  IF b.exc # "" THEN Raise(b.exc, UUID(<<>>, name)) ELSE Ok(UUID(b.ret, name))

\* faulty variant: only ':' is removed
UUID_normalize_colons(uuid) == str_remove(uuid, ":")

UUID_normalize(uuid) == str_remove(str_remove(uuid, ":"), "-")

UUID_from_string(uuid, name) ==
    LET b == bytes_fromhex(UUID_normalize(uuid))
    IN  IF b.exc # "" THEN Raise(b.exc, UUID(<<>>, name)) ELSE Ok(UUID(b.ret, name))

UUID_str(self) == IF self.name = "" THEN UUID_as_string(self) ELSE self.name

----------------------------------------------------------------------------
(* dict: insertion-ordered, keyed by UUID through __hash__ and __eq__      *)

\* position of key in d, 0 if absent
dict_index(d, key) ==
    IF \E i \in 1..Len(d) : UUID_hash(d[i].k) = UUID_hash(key) /\ UUID_eq(d[i].k, key)
    THEN CHOOSE i \in 1..Len(d) : UUID_hash(d[i].k) = UUID_hash(key) /\ UUID_eq(d[i].k, key)
    ELSE 0

\* d[key]
dict_getitem(d, key, dummy) ==
    IF dict_index(d, key) = 0 THEN Raise("KeyError", dummy)
    ELSE Ok(d[dict_index(d, key)].v)

\* d[key] = v: an existing key keeps its place
dict_setitem(d, key, v) ==
    IF dict_index(d, key) = 0 THEN Append(d, [k |-> key, v |-> v])
    ELSE [d EXCEPT ![dict_index(d, key)].v = v]

\* del d[key], for a key that is present
dict_delitem(d, key) ==
    SubSeq(d, 1, dict_index(d, key) - 1) \o SubSeq(d, dict_index(d, key) + 1, Len(d))

dict_values(d) == [i \in 1..Len(d) |-> d[i].v]
dict_keys(d) == [i \in 1..Len(d) |-> d[i].k]

----------------------------------------------------------------------------
(* class Descriptor, class Characteristic, class Service                   *)

Descriptor(handle, uuid, value) ==
    [handle |-> handle, uuid |-> uuid, value |-> value]

\* the dataclass constructor followed by __post_init__
Characteristic(handle, descriptor_handle, uuid, props, name, value, descriptors) ==
    [handle |-> handle,
     descriptor_handle |-> descriptor_handle,
     uuid |-> IF uuid.name = "" THEN [uuid EXCEPT !.name = name] ELSE uuid,
     props |-> props,
     name |-> name,
     value |-> value,
     descriptors |-> descriptors]

Service(uuid, start_handle, name, end_handle, chars) ==
    [uuid |-> IF uuid.name = "" THEN [uuid EXCEPT !.name = name] ELSE uuid,
     start_handle |-> start_handle,
     name |-> name,
     end_handle |-> end_handle,
     chars |-> chars]

NoDescriptor == Descriptor(0, UUID(<<>>, ""), PyNone)
NoCharacteristic == Characteristic(0, 0, UUID(<<>>, ""), 0, "", PyNone, <<>>)

\* faulty variant: the wrong member of SpecUuidNumber is looked up
Characteristic_cccd_handle_user_descr(self) ==
    LET key == UUID_from_int(int_literal(SpecUuidNumber_member("CHAR_USER_DESCR").value),
                             BIT_8, "").ret
        found == dict_getitem(self.descriptors, key, NoDescriptor)
    IN  IF found.exc # "" THEN Raise(found.exc, 0) ELSE Ok(found.ret.handle)

Characteristic_cccd_handle(self) ==
    LET key == UUID_from_int(int_literal(SpecUuidNumber_member("CLIENT_CHAR_CONFIG").value),
                             BIT_8, "").ret
        found == dict_getitem(self.descriptors, key, NoDescriptor)
    IN  IF found.exc # "" THEN Raise(found.exc, 0) ELSE Ok(found.ret.handle)

----------------------------------------------------------------------------
(* class GattDB and GattDB.CharacteristicView                              *)
(* h is the heap of dict objects; self is the GattDB, whose services field *)
(* is a reference to the dict it was constructed with.  The view holds a   *)
(* reference to the GattDB and reads self.services on every call.          *)

\* faulty variant: the GattDB keeps a copy of the mapping it was given
GattDB_init_copy(h, services) ==
    [heap |-> [r \in DOMAIN h \cup {"copy"} |-> IF r = "copy" THEN h[services] ELSE h[r]],
     self |-> [services |-> "copy"]]

GattDB_init(h, services) ==
    [heap |-> h, self |-> [services |-> services]]

\* all characteristics in iteration order: services, then each one's chars
RECURSIVE View_values_from(_, _)
View_values_from(svcs, i) ==
    IF i > Len(svcs) THEN <<>>
    ELSE dict_values(svcs[i].chars) \o View_values_from(svcs, i + 1)

View_values(h, self) == View_values_from(dict_values(h[self.services]), 1)

RECURSIVE View_keys_from(_, _)
View_keys_from(svcs, i) ==
    IF i > Len(svcs) THEN <<>>
    ELSE dict_keys(svcs[i].chars) \o View_keys_from(svcs, i + 1)

View_keys(h, self) == View_keys_from(dict_values(h[self.services]), 1)

View_iter(h, self) == View_keys(h, self)

RECURSIVE View_len_from(_, _)
View_len_from(svcs, i) ==
    IF i > Len(svcs) THEN 0
    ELSE Len(svcs[i].chars) + View_len_from(svcs, i + 1)

View_len(h, self) == View_len_from(dict_values(h[self.services]), 1)

\* the inner loop: for char in service.chars.values(): if char.uuid == key
RECURSIVE getitem_chars(_, _, _)
getitem_chars(chars, j, key) ==
    IF j > Len(chars) THEN Raise("KeyError", NoCharacteristic)
    ELSE IF UUID_eq(chars[j].uuid, key) THEN Ok(chars[j])
    ELSE getitem_chars(chars, j + 1, key)

\* faulty variant: a match in a later service is preferred
RECURSIVE getitem_services_last(_, _, _)
getitem_services_last(svcs, i, key) ==
    IF i > Len(svcs) THEN Raise("KeyError", NoCharacteristic)
    ELSE LET r == getitem_services_last(svcs, i + 1, key)
         IN  IF r.exc = "" THEN r ELSE getitem_chars(dict_values(svcs[i].chars), 1, key)

\* the outer loop: for service in self._db.services.values()
RECURSIVE getitem_services(_, _, _)
getitem_services(svcs, i, key) ==
    IF i > Len(svcs) THEN Raise("KeyError", NoCharacteristic)
    ELSE LET r == getitem_chars(dict_values(svcs[i].chars), 1, key)
         IN  IF r.exc = "" THEN r ELSE getitem_services(svcs, i + 1, key)

View_getitem(h, self, key) ==
    getitem_services(dict_values(h[self.services]), 1, key)

RECURSIVE contains_chars(_, _, _)
contains_chars(chars, j, key) ==
    IF j > Len(chars) THEN FALSE
    ELSE IF UUID_eq(chars[j].uuid, key) THEN TRUE
    ELSE contains_chars(chars, j + 1, key)

RECURSIVE contains_services(_, _, _)
contains_services(svcs, i, key) ==
    IF i > Len(svcs) THEN FALSE
    ELSE IF contains_chars(dict_values(svcs[i].chars), 1, key) THEN TRUE
    ELSE contains_services(svcs, i + 1, key)

View_contains(h, self, key) ==
    contains_services(dict_values(h[self.services]), 1, key)

RECURSIVE handle2uuid_chars(_, _, _)
handle2uuid_chars(chars, j, handle) ==
    IF j > Len(chars) THEN Raise("KeyError", UUID(<<>>, ""))
    ELSE IF chars[j].handle = handle THEN Ok(chars[j].uuid)
    ELSE handle2uuid_chars(chars, j + 1, handle)

RECURSIVE handle2uuid_services(_, _, _)
handle2uuid_services(svcs, i, handle) ==
    IF i > Len(svcs) THEN Raise("KeyError", UUID(<<>>, ""))
    ELSE LET r == handle2uuid_chars(dict_values(svcs[i].chars), 1, handle)
         IN  IF r.exc = "" THEN r ELSE handle2uuid_services(svcs, i + 1, handle)

GattDB_handle2uuid(h, self, handle) ==
    handle2uuid_services(dict_values(h[self.services]), 1, handle)

\* faulty variant: the declaration handle is returned
GattDB_uuid2handle_declaration(h, self, uuid) ==
    LET c == View_getitem(h, self, uuid)
    IN  IF c.exc # "" THEN Raise(c.exc, 0) ELSE Ok(c.ret.descriptor_handle)

GattDB_uuid2handle(h, self, uuid) ==
    LET c == View_getitem(h, self, uuid)
    IN  IF c.exc # "" THEN Raise(c.exc, 0) ELSE Ok(c.ret.handle)

----------------------------------------------------------------------------
(* GattDB.dump_to_csv                                                      *)
(* A row is the list handed to csv.writer.writerow, each cell as the       *)
(* writer renders it: a str as it is, None as the empty string, anything   *)
(* else through str().                                                     *)

\* the printable ASCII characters 32..95 and 97..126 (a TLA+ string cannot
\* hold the grave accent, 96, which no byte string of the model contains)
AsciiPrintableLow ==
    " !\"#$%&'()*+,-./0123456789:;<=>?@ABCDEFGHIJKLMNOPQRSTUVWXYZ[\\]^_"
AsciiPrintableHigh == "abcdefghijklmnopqrstuvwxyz{|}~"

\* one byte inside the repr of a bytes object quoted with q
bytes_repr_byte(n, q) ==
    CASE n = 9  -> "\\t"
      [] n = 10 -> "\\n"
      [] n = 13 -> "\\r"
      [] n = 92 -> "\\\\"
      [] n = 39 /\ q = "'" -> "\\'"
      [] n >= 32 /\ n <= 95 /\ n # 92 /\ ~(n = 39 /\ q = "'") ->
            CharAt(AsciiPrintableLow, n - 31)
      [] n >= 97 /\ n <= 126 -> CharAt(AsciiPrintableHigh, n - 96)
      [] n < 32 /\ n \notin {9, 10, 13} ->
            "\\x" \o CharAt(HexLower, (n \div 16) + 1) \o CharAt(HexLower, (n % 16) + 1)
      [] n > 126 ->
            "\\x" \o CharAt(HexLower, (n \div 16) + 1) \o CharAt(HexLower, (n % 16) + 1)

RECURSIVE bytes_repr_body(_, _)
bytes_repr_body(b, q) ==
    IF b = <<>> THEN ""
    ELSE bytes_repr_byte(Head(b), q) \o bytes_repr_body(Tail(b), q)

\* str(b) of a bytes object
bytes_str(b) ==
    LET q == IF (\E i \in 1..Len(b) : b[i] = 39) /\ ~(\E i \in 1..Len(b) : b[i] = 34)
             THEN "\"" ELSE "'"
    IN  "b" \o q \o bytes_repr_body(b, q) \o q

\* the cell csv.writer writes for a str, bytes or None
csv_cell(x) ==
    CASE x.type = "str"      -> x.value
      [] x.type = "NoneType" -> ""
      [] x.type = "bytes"    -> bytes_str(x.value)

\* str() of the class object UUID
UUID_class_str == "<class 'open_gopro.ble.services.UUID'>"

\* str() of a SpecUuidNumber member, as IntEnum renders it up to Python 3.10
\* (3.11 renders the number)
SpecUuidNumber_str(m) == "SpecUuidNumber." \o m.name

csv_header == <<"handle", "description", UUID_class_str, "properties", "value">>

csv_service_row(service) ==
    << int_str(service.start_handle),
       SpecUuidNumber_str(SpecUuidNumber_member("PRIMARY_SERVICE")),
       UUID_as_string(service.uuid),
       IF service.name = "" THEN "unknown" ELSE service.name,
       "SERVICE" >>

csv_declaration_row(char) ==
    << int_str(char.descriptor_handle),
       SpecUuidNumber_str(SpecUuidNumber_member("CHAR_DECLARATION")),
       "28:03",
       CharProps_str(char.props),
       "" >>

csv_value_row(char) ==
    << int_str(char.handle),
       IF char.name = "" THEN "unknown" ELSE char.name,
       UUID_as_string(char.uuid),
       "",
       csv_cell(char.value) >>

csv_descriptor_row(descriptor, description) ==
    << int_str(descriptor.handle),
       description,
       UUID_as_string(descriptor.uuid),
       "",
       csv_cell(descriptor.value) >>

\* faulty variant: a descriptor with no spec name is left out instead of failing
RECURSIVE dump_descriptors_skip(_, _, _)
dump_descriptors_skip(w, descs, k) ==
    IF w.exc # "" \/ k > Len(descs) THEN w
    ELSE LET m == SpecUuidNumber_call(UUID_as_int(descs[k].uuid))
         IN  IF m.exc # "" THEN dump_descriptors_skip(w, descs, k + 1)
             ELSE dump_descriptors_skip(
                      Ok(Append(w.ret, csv_descriptor_row(descs[k], m.ret.name))),
                      descs, k + 1)

\* for descriptor in char.descriptors.values(); w is [exc, ret |-> rows written]
RECURSIVE dump_descriptors(_, _, _)
dump_descriptors(w, descs, k) ==
    IF w.exc # "" \/ k > Len(descs) THEN w
    ELSE LET m == SpecUuidNumber_call(UUID_as_int(descs[k].uuid))
         IN  IF m.exc # "" THEN [w EXCEPT !.exc = m.exc]
             ELSE dump_descriptors(
                      Ok(Append(w.ret, csv_descriptor_row(descs[k], m.ret.name))),
                      descs, k + 1)

RECURSIVE dump_chars(_, _, _)
\* faulty variant: the value row is written before the declaration row
dump_chars_value_first(w, chars, j) ==
    IF w.exc # "" \/ j > Len(chars) THEN w
    ELSE dump_chars(
             dump_descriptors(
                 Ok(w.ret \o <<csv_value_row(chars[j]), csv_declaration_row(chars[j])>>),
                 dict_values(chars[j].descriptors), 1),
             chars, j + 1)

\* for char in service.chars.values()
dump_chars(w, chars, j) ==
    IF w.exc # "" \/ j > Len(chars) THEN w
    ELSE dump_chars(
             dump_descriptors(
                 Ok(w.ret \o <<csv_declaration_row(chars[j]), csv_value_row(chars[j])>>),
                 dict_values(chars[j].descriptors), 1),
             chars, j + 1)

\* for service in self.services.values()
RECURSIVE dump_services(_, _, _)
dump_services(w, svcs, i) ==
    IF w.exc # "" \/ i > Len(svcs) THEN w
    ELSE dump_services(
             dump_chars(Ok(Append(w.ret, csv_service_row(svcs[i]))),
                        dict_values(svcs[i].chars), 1),
             svcs, i + 1)

\* the rows written to the file, and the exception that ended the dump if any
GattDB_dump_to_csv(h, self) ==
    dump_services(Ok(<<csv_header>>), dict_values(h[self.services]), 1)

----------------------------------------------------------------------------
(* class UUIDs: the registry entries the model uses                        *)

UUIDs_S_BATTERY ==
    UUID_from_string("0000180f-0000-1000-8000-00805f9b34fb", "Battery Service").ret
UUIDs_BATT_LEVEL ==
    UUID_from_string("00002a19-0000-1000-8000-00805f9b34fb", "Battery Level").ret
UUIDs_S_DEV_INFO ==
    UUID_from_string("0000180a-0000-1000-8000-00805f9b34fb", "Device Information Service").ret

----------------------------------------------------------------------------
(* The discovery collaborator's inputs: what it may put into the table     *)

\* 16-bit forms, as UUID.from_int builds them
Short(n) == UUID_from_int(int_literal(n), BIT_8, "").ret
ShortBattLevel == Short(10777)                                       \* 0x2a19
ShortCccd == Short(SpecUuidNumber_member("CLIENT_CHAR_CONFIG").value)
ShortUserDescr == Short(SpecUuidNumber_member("CHAR_USER_DESCR").value)
\* the CCCD's 128-bit form on the Bluetooth base UUID
LongCccd == UUID_from_string("00002902-0000-1000-8000-00805f9b34fb", "").ret

ServiceUniverse ==
    { [uuid |-> UUIDs_S_BATTERY, start_handle |-> 16, name |-> "Battery Service"],
      [uuid |-> UUIDs_S_DEV_INFO, start_handle |-> 32, name |-> ""] }

\* Handles are positions in the device's attribute table, so no two
\* attributes share one: a characteristic is declared at its service's start
\* handle plus decl, its value is one handle above, its descriptors follow.
\* Properties are READ|NOTIFY.
CharUniverse ==
    { [uuid |-> UUIDs_BATT_LEVEL, decl |-> 1, props |-> 18, name |-> "Battery Level"],
      [uuid |-> ShortBattLevel, decl |-> 5, props |-> 18, name |-> ""] }

\* a CCCD in either form and a user description, at the value handle plus at
DescUniverse ==
    { [uuid |-> ShortCccd, at |-> 1, value |-> PyBytes(<<1, 0>>)],
      [uuid |-> ShortUserDescr, at |-> 2, value |-> PyNone],
      [uuid |-> LongCccd, at |-> 3, value |-> PyBytes(<<1, 0>>)] }

\* the keys the table is queried with: UUID objects, ints, strs and bytes
LookupKeys ==
    << UUIDs_BATT_LEVEL,
       ShortBattLevel,
       PyInt(int_literal(10777)),
       PyInt(UUID_as_int(UUIDs_BATT_LEVEL)),
       PyStr("00002A19-0000-1000-8000-00805F9B34FB"),
       PyBytes(<<42, 25>>),
       ShortCccd >>

LookupHandles == {18, 19, 22, 34}

\* services + characteristics + descriptors of a service mapping
RECURSIVE CountAttrs(_)
CountAttrs(d) ==
    IF d = <<>> THEN 0
    ELSE (IF "chars" \in DOMAIN Head(d).v THEN CountAttrs(Head(d).v.chars)
          ELSE IF "descriptors" \in DOMAIN Head(d).v THEN CountAttrs(Head(d).v.descriptors)
          ELSE 0)
         + 1 + CountAttrs(Tail(d))

----------------------------------------------------------------------------
(* The attribute table: discovery, construction, queries                   *)

Done(op, arg, r) == [op |-> op, arg |-> arg, exc |-> r.exc, ret |-> r.ret]
Nothing == Done("none", 0, Ok(0))

Init ==
    /\ pc = "discovery"
    /\ heap = [r \in {"discovered"} |-> <<>>]
    /\ db = [services |-> "none"]
    /\ last = Nothing
    /\ text = ""
    /\ seps = 0

\* the mapping the discovery collaborator holds
Discovered == heap["discovered"]

\* last.arg is the key written or deleted
Mutate(d, op, arg) ==
    /\ CountAttrs(d) <= MaxAttrs
    /\ heap' = [heap EXCEPT !["discovered"] = d]
    /\ last' = Done(op, arg, Ok(0))
    /\ UNCHANGED <<pc, db, text, seps>>

\* services[s.uuid] = Service(s.uuid, s.start_handle, s.name)
AddService ==
    \E s \in ServiceUniverse :
        Mutate(dict_setitem(Discovered, s.uuid,
                            Service(s.uuid, s.start_handle, s.name, 65535, <<>>)),
               "add_service", s.uuid)

\* del services[uuid]
RemoveService ==
    \E i \in 1..Len(Discovered) :
        Mutate(dict_delitem(Discovered, Discovered[i].k), "remove_service", Discovered[i].k)

\* service.chars[c.uuid] = Characteristic(...)
AddChar ==
    \E i \in 1..Len(Discovered), c \in CharUniverse :
        Mutate([Discovered EXCEPT ![i].v.chars =
                    dict_setitem(@, c.uuid,
                                 Characteristic(Discovered[i].v.start_handle + c.decl + 1,
                                                Discovered[i].v.start_handle + c.decl,
                                                c.uuid, c.props, c.name, PyNone, <<>>))],
               "add_char", c.uuid)

\* del service.chars[uuid]
RemoveChar ==
    \E i \in 1..Len(Discovered) :
        \E j \in 1..Len(Discovered[i].v.chars) :
            Mutate([Discovered EXCEPT ![i].v.chars =
                        dict_delitem(@, Discovered[i].v.chars[j].k)],
                   "remove_char", Discovered[i].v.chars[j].k)

\* char.descriptors[d.uuid] = Descriptor(d.handle, d.uuid, d.value)
AddDescriptor ==
    \E i \in 1..Len(Discovered) :
        \E j \in 1..Len(Discovered[i].v.chars), d \in DescUniverse :
            Mutate([Discovered EXCEPT ![i].v.chars[j].v.descriptors =
                        dict_setitem(@, d.uuid,
                                     Descriptor(Discovered[i].v.chars[j].v.handle + d.at,
                                                d.uuid, d.value))],
                   "add_descriptor", d.uuid)

\* db = GattDB(services)
Construct ==
    /\ pc = "discovery"
    /\ LET r == GattDB_init(heap, "discovered")
       IN  /\ heap' = r.heap
           /\ db' = r.self
    /\ pc' = "ready"
    /\ last' = Done("GattDB", 0, Ok(0))
    /\ UNCHANGED <<text, seps>>

Query(op, arg, r) ==
    /\ pc = "ready"
    /\ last' = Done(op, arg, r)
    /\ UNCHANGED <<pc, heap, db, text, seps>>

Handle2Uuid ==
    \E hd \in LookupHandles : Query("handle2uuid", hd, GattDB_handle2uuid(heap, db, hd))

Uuid2Handle ==
    \E n \in 1..Len(LookupKeys) :
        Query("uuid2handle", LookupKeys[n], GattDB_uuid2handle(heap, db, LookupKeys[n]))

ViewGetItem ==
    \E n \in 1..Len(LookupKeys) :
        Query("getitem", LookupKeys[n], View_getitem(heap, db, LookupKeys[n]))

ViewContains ==
    \E n \in 1..Len(LookupKeys) :
        Query("contains", LookupKeys[n], Ok(View_contains(heap, db, LookupKeys[n])))

ViewLen == Query("len", 0, Ok(View_len(heap, db)))

ViewIter == Query("iter", 0, Ok(View_iter(heap, db)))

\* the arg is the position <<i, j>> of the characteristic asked
CccdHandle ==
    /\ pc = "ready"
    /\ \E i \in 1..Len(heap[db.services]) :
           \E j \in 1..Len(heap[db.services][i].v.chars) :
               Query("cccd_handle", <<i, j>>,
                     Characteristic_cccd_handle(heap[db.services][i].v.chars[j].v))

DumpToCsv == Query("dump_to_csv", 0, GattDB_dump_to_csv(heap, db))

Next ==
    \/ AddService
    \/ RemoveService
    \/ AddChar
    \/ RemoveChar
    \/ AddDescriptor
    \/ Construct
    \/ Handle2Uuid
    \/ Uuid2Handle
    \/ ViewGetItem
    \/ ViewContains
    \/ ViewLen
    \/ ViewIter
    \/ CccdHandle
    \/ DumpToCsv

Spec == Init /\ [][Next]_vars

----------------------------------------------------------------------------
(* The UUID value type on its own: strings are parsed, rendered, compared  *)

\* hex strings as callers write them: bare, hyphenated, colon-separated,
\* in either letter case; 128-bit and 16-bit
HexStrings ==
    { "00002a1900001000800000805f9b34fb",
      "0000180F-0000-1000-8000-00805F9B34FB",
      "00:00:2A:19:00:00:10:00:80:00:00:80:5f:9b:34:fb",
      "2902",
      "29:02" }

\* the right-hand sides a UUID is compared with; t is the string at hand
Others(t) ==
    << UUID(<<41, 2>>, "cccd"),
       PyInt(int_literal(10498)),
       PyInt(int_literal(10497)),
       PyInt(<<42, 25, 0, 0, 16, 0, 128, 0, 0, 128, 95, 155, 52, 251>>),
       PyBytes(<<41, 2>>),
       PyStr("2902"),
       PyStr("00002A19-0000-1000-8000-00805f9b34fb"),
       PyStr(t),
       PyNone >>

\* pc is "input" while the string is written, "applied" once an operation
\* of UUID has been applied to it
InitUUID ==
    /\ pc = "input"
    /\ heap = [r \in {"discovered"} |-> <<>>]
    /\ db = [services |-> "none"]
    /\ last = Nothing
    /\ text \in HexStrings
    /\ seps = 0

\* the caller writes one more separator somewhere in the string
InsertSeparator ==
    /\ pc = "input"
    /\ seps < MaxSeps
    /\ \E p \in 0..Len(text), c \in {":", "-"} :
           text' = SubSeq(text, 1, p) \o c \o SubSeq(text, p + 1, Len(text))
    /\ seps' = seps + 1
    /\ UNCHANGED <<pc, heap, db, last>>

Apply(op, arg, r) ==
    /\ pc = "input"
    /\ pc' = "applied"
    /\ last' = Done(op, arg, r)
    /\ UNCHANGED <<heap, db, text, seps>>

\* UUID.from_string(text)
FromString == Apply("from_string", text, UUID_from_string(text, ""))

\* UUID.from_string(text).as_string
AsString ==
    /\ UUID_from_string(text, "").exc = ""
    /\ Apply("as_string", text, Ok(UUID_as_string(UUID_from_string(text, "").ret)))

\* UUID.from_string(text) == other
CompareParsed ==
    /\ UUID_from_string(text, "").exc = ""
    /\ \E n \in 1..Len(Others(text)) :
           Apply("eq", <<UUID_from_string(text, "").ret, Others(text)[n]>>,
                 Ok(UUID_eq(UUID_from_string(text, "").ret, Others(text)[n])))

\* UUID.from_int(0x2902, UuidLength.BIT_8) == other
CompareCccd ==
    \E n \in 1..Len(Others(text)) :
        Apply("eq", <<ShortCccd, Others(text)[n]>>, Ok(UUID_eq(ShortCccd, Others(text)[n])))

NextUUID ==
    \/ InsertSeparator
    \/ FromString
    \/ AsString
    \/ CompareParsed
    \/ CompareCccd

SpecUUID == InitUUID /\ [][NextUUID]_vars

----------------------------------------------------------------------------
(* What the properties below speak of                                      *)

\* the services the GattDB reads, in mapping order
Svcs == dict_values(heap[db.services])

\* <<i, j>>: the j-th characteristic of the i-th service
Positions ==
    UNION {{<<i, j>> : j \in 1..Len(Svcs[i].chars)} : i \in 1..Len(Svcs)}

CharAtPos(p) == Svcs[p[1]].chars[p[2]].v

\* p comes before q when services, then their characteristics, are scanned
Before(p, q) == p[1] < q[1] \/ (p[1] = q[1] /\ p[2] < q[2])

Zeros(k) == [i \in 1..k |-> 0]

\* n is the big-endian value of the bytes b: b is n's digits after zeros
BigEndianValue(b, n) ==
    /\ n = <<>> \/ n[1] # 0
    /\ \E k \in 0..Len(b) : b = Zeros(k) \o n

\* the hex digits of a string: separators stripped, lower-cased
Digits(s) == str_lower(str_remove(str_remove(s, ":"), "-"))

DigitValue(c) == (CHOOSE n \in 1..16 : CharAt(HexLower, n) = c) - 1

\* the member of SpecUuidNumber a descriptor UUID stands for, 0 if none
SpecMember(u) ==
    IF \E m \in 1..Len(SpecUuidNumber) :
           BigEndianValue(u.value, <<SpecUuidNumber[m].value \div 256,
                                     SpecUuidNumber[m].value % 256>>)
    THEN CHOOSE m \in 1..Len(SpecUuidNumber) :
           BigEndianValue(u.value, <<SpecUuidNumber[m].value \div 256,
                                     SpecUuidNumber[m].value % 256>>)
    ELSE 0

\* the body rows a dump is to hold, in order: what each row is about
LayoutDescriptors(c) ==
    [k \in 1..Len(c.descriptors) |->
        [kind |-> "descriptor", handle |-> c.descriptors[k].v.handle,
         label |-> IF SpecMember(c.descriptors[k].v.uuid) = 0 THEN ""
                   ELSE SpecUuidNumber[SpecMember(c.descriptors[k].v.uuid)].name,
         known |-> SpecMember(c.descriptors[k].v.uuid) # 0]]

RECURSIVE LayoutChars(_, _)
LayoutChars(svc, j) ==
    IF j > Len(svc.chars) THEN <<>>
    ELSE LET c == svc.chars[j].v
         IN  << [kind |-> "declaration", handle |-> c.descriptor_handle,
                 label |-> CharProps_str(c.props), known |-> TRUE],
                [kind |-> "value", handle |-> c.handle,
                 label |-> IF c.name = "" THEN "unknown" ELSE c.name, known |-> TRUE] >>
             \o LayoutDescriptors(c) \o LayoutChars(svc, j + 1)

RECURSIVE Layout(_)
Layout(i) ==
    IF i > Len(Svcs) THEN <<>>
    ELSE << [kind |-> "service", handle |-> Svcs[i].start_handle,
             label |-> IF Svcs[i].name = "" THEN "unknown" ELSE Svcs[i].name,
             known |-> TRUE] >>
         \o LayoutChars(Svcs[i], 1) \o Layout(i + 1)

NumChars == Cardinality(Positions)
NumDescriptors ==
    Cardinality(UNION {{<<p, k>> : k \in 1..Len(CharAtPos(p).descriptors)} :
                           p \in Positions})

\* the row is the one the layout asks for at its place
RowIs(row, item) ==
    /\ row[1] = int_str(item.handle)
    /\ item.kind = "service" => row[4] = item.label /\ row[5] = "SERVICE"
    /\ item.kind = "declaration" =>
           row[3] = "28:03" /\ row[4] = item.label /\ row[5] = ""
    /\ item.kind = "value" => row[2] = item.label
    /\ item.kind = "descriptor" => row[2] = item.label

\* the table of the Battery scenario, its CCCD stored under the UUID u
BatteryTable(u) ==
    << [k |-> UUIDs_S_BATTERY,
        v |-> Service(UUIDs_S_BATTERY, 16, "Battery Service", 65535,
                 << [k |-> UUIDs_BATT_LEVEL,
                     v |-> Characteristic(18, 17, UUIDs_BATT_LEVEL, 18, "Battery Level",
                              PyNone,
                              << [k |-> u,
                                  v |-> Descriptor(19, u, PyBytes(<<1, 0>>))] >>)] >>)] >>

BatteryScenario == pc = "ready" /\ Svcs = dict_values(BatteryTable(ShortCccd))

AskedInt(n) == last.arg.type = "int" /\ last.arg.value = int_literal(n)
AskedUuid(u) == last.arg.type = "UUID" /\ last.arg.value = u.value

----------------------------------------------------------------------------
(* Properties                                                              *)

\* C1 as stated: for every characteristic C of every service,
\* handle2uuid(C.handle) is C.uuid and uuid2handle(C.uuid) is C.handle.
C1_EveryCharacteristic ==
    pc = "ready" =>
        \A p \in Positions :
            /\ (last.op = "handle2uuid" /\ last.arg = CharAtPos(p).handle)
                   => (last.exc = "" /\ UUID_eq(last.ret, CharAtPos(p).uuid))
            /\ (last.op = "uuid2handle" /\ AskedUuid(CharAtPos(p).uuid))
                   => (last.exc = "" /\ last.ret = CharAtPos(p).handle)

\* C1 amended: handle2uuid(C.handle) is C.uuid for the first characteristic
\* C, in scan order, with that value handle, and uuid2handle(C.uuid) is
\* C.handle for the first characteristic C with that UUID.
C1_FirstCharacteristic ==
    pc = "ready" =>
        \A p \in Positions :
            /\ (/\ last.op = "handle2uuid" /\ last.arg = CharAtPos(p).handle
                /\ \A q \in Positions :
                       Before(q, p) => CharAtPos(q).handle # CharAtPos(p).handle)
                   => (last.exc = "" /\ UUID_eq(last.ret, CharAtPos(p).uuid))
            /\ (/\ last.op = "uuid2handle" /\ AskedUuid(CharAtPos(p).uuid)
                /\ \A q \in Positions :
                       Before(q, p) => ~UUID_eq(CharAtPos(q).uuid, CharAtPos(p).uuid))
                   => (last.exc = "" /\ last.ret = CharAtPos(p).handle)

\* C1 witness: a UUID held in two services at different handles was resolved
C1_Witness ==
    /\ pc = "ready" /\ last.op = "uuid2handle" /\ last.exc = ""
    /\ \E p \in Positions, q \in Positions :
           /\ p[1] < q[1]
           /\ AskedUuid(CharAtPos(p).uuid) /\ AskedUuid(CharAtPos(q).uuid)
           /\ CharAtPos(p).handle # CharAtPos(q).handle
           /\ last.ret = CharAtPos(p).handle

\* C2 as stated: a UUID equals another UUID with the same bytes, the int
\* that is the big-endian value of its bytes, its raw bytes, and a str whose
\* hex digits (separators stripped, lower-cased) are its own; so
\* UUID.from_int(0x2902, 2) equals 0x2902, "2902" and bytes 29 02.
C2_CrossRepresentation ==
    last.op = "eq" =>
        LET self == last.arg[1]
            other == last.arg[2]
        IN  last.ret =
              CASE other.type = "UUID"  -> self.value = other.value
                [] other.type = "int"   -> BigEndianValue(self.value, other.value)
                [] other.type = "bytes" -> self.value = other.value
                [] other.type = "str"   ->
                       Digits(UUID_as_string(self)) = Digits(other.value)
                [] OTHER -> FALSE

\* C3: the characteristic view reads the live mapping: its length is the
\* number of characteristics now in the discovered services, its keys are
\* theirs, and a characteristic added after construction is found by
\* lookup, by the membership test and by iteration.
C3_LiveView ==
    pc = "ready" =>
        LET live == dict_values(Discovered)
            count == Cardinality(UNION {{<<i, j>> : j \in 1..Len(live[i].chars)} :
                                            i \in 1..Len(live)})
        IN  /\ View_len(heap, db) = count
            /\ last.op = "len" => last.ret = count
            /\ last.op = "iter" => Len(last.ret) = count
            /\ \A i \in 1..Len(live) : \A j \in 1..Len(live[i].chars) :
                   \E n \in 1..Len(View_iter(heap, db)) :
                       View_iter(heap, db)[n] = live[i].chars[j].k
            /\ last.op = "add_char" =>
                   /\ View_getitem(heap, db, last.arg).exc = ""
                   /\ UUID_eq(View_getitem(heap, db, last.arg).ret.uuid, last.arg)
                   /\ View_contains(heap, db, last.arg)
                   /\ \E n \in 1..Len(View_iter(heap, db)) :
                          UUID_eq(View_iter(heap, db)[n], last.arg)
            /\ last.op = "remove_char" =>
                   (View_contains(heap, db, last.arg) <=>
                        \E i \in 1..Len(live) : \E j \in 1..Len(live[i].chars) :
                            UUID_eq(live[i].chars[j].v.uuid, last.arg))

\* C3 witness: a characteristic was added to a service of a constructed
\* GattDB that already held one
C3_Witness ==
    /\ pc = "ready" /\ last.op = "add_char"
    /\ View_len(heap, db) = 2

\* C4: cccd_handle is the handle of the descriptor whose UUID is the 16-bit
\* UUID 0x2902 when the characteristic has one, and KeyError when not.
C4_CccdHandle ==
    (pc = "ready" /\ last.op = "cccd_handle") =>
        LET ds == dict_values(CharAtPos(last.arg).descriptors)
        IN  IF \E k \in 1..Len(ds) : UUID_eq(ds[k].uuid, UUID(<<41, 2>>, ""))
            THEN /\ last.exc = ""
                 /\ \E k \in 1..Len(ds) :
                        UUID_eq(ds[k].uuid, UUID(<<41, 2>>, "")) /\ last.ret = ds[k].handle
            ELSE last.exc = "KeyError"

\* C4 witness: the CCCD was found behind another descriptor
C4_Witness ==
    /\ pc = "ready" /\ last.op = "cccd_handle" /\ last.exc = "" /\ last.ret = 19
    /\ Len(CharAtPos(last.arg).descriptors) = 2
    /\ CharAtPos(last.arg).descriptors[1].v.handle = 20

\* C5: for a string of 32 hex digits with ':' and '-' anywhere, from_string
\* holds the 16 bytes the digits denote, and as_string of it has the same
\* digits.
C5_StringRoundTrip ==
    LET d == Digits(last.arg)
    IN  /\ (last.op = "from_string" /\ Len(d) = 32) =>
               /\ last.exc = ""
               /\ Len(last.ret.value) = 16
               /\ \A i \in 1..16 :
                      last.ret.value[i] = 16 * DigitValue(CharAt(d, 2 * i - 1))
                                          + DigitValue(CharAt(d, 2 * i))
        /\ (last.op = "as_string" /\ Len(d) = 32) => Digits(last.ret) = d

\* C5 witness: a colon-separated upper-case string with one more separator
\* was parsed and rendered
C5_Witness ==
    /\ last.op = "as_string" /\ seps = 1 /\ Len(last.arg) = 48
    /\ last.ret = "00002a19-0000-1000-8000-00805f9b34fb"

\* C6 as stated: in the Battery scenario uuid2handle(0x2a19) is 0x0012 and
\* the characteristic's cccd_handle is 0x0013.
C6_BatteryScenario ==
    BatteryScenario =>
        /\ (last.op = "uuid2handle" /\ AskedInt(10777)) => (last.exc = "" /\ last.ret = 18)
        /\ last.op = "cccd_handle" => (last.exc = "" /\ last.ret = 19)

\* C6 amended: in the Battery scenario uuid2handle(0x2a19) fails with
\* KeyError, uuid2handle of the UUID 00002a19-0000-1000-8000-00805f9b34fb
\* is 0x0012, and the characteristic's cccd_handle is 0x0013.
C6_BatteryScenarioFullUuid ==
    BatteryScenario =>
        /\ (last.op = "uuid2handle" /\ AskedInt(10777)) => last.exc = "KeyError"
        /\ (last.op = "uuid2handle" /\ AskedUuid(UUIDs_BATT_LEVEL))
               => (last.exc = "" /\ last.ret = 18)
        /\ last.op = "cccd_handle" => (last.exc = "" /\ last.ret = 19)

\* C6 witness: uuid2handle(0x2a19) was asked of the Battery table
C6_Witness == BatteryScenario /\ last.op = "uuid2handle" /\ AskedInt(10777)

\* C7: when every descriptor has a spec UUID, the body rows are, per service
\* in mapping order, its service row, then per characteristic in mapping
\* order its declaration row, its value row and its descriptors' rows; they
\* number services + 2 x characteristics + descriptors.
C7_RowOrder ==
    (/\ pc = "ready" /\ last.op = "dump_to_csv"
     /\ \A n \in 1..Len(Layout(1)) : Layout(1)[n].known) =>
        /\ last.exc = ""
        /\ Len(last.ret) - 1 = Len(Svcs) + 2 * NumChars + NumDescriptors
        /\ Len(last.ret) - 1 = Len(Layout(1))
        /\ \A n \in 1..Len(Layout(1)) : RowIs(last.ret[n + 1], Layout(1)[n])

\* C7 witness: two services, one of them with a characteristic and its
\* descriptor, were dumped
C7_Witness ==
    /\ pc = "ready" /\ last.op = "dump_to_csv" /\ last.exc = ""
    /\ Len(Svcs) = 2 /\ NumChars = 1 /\ NumDescriptors = 1
    /\ Len(Svcs[1].chars) = 0

\* C8 as stated: the first row written is handle, description, uuid,
\* properties, value.
C8_Header ==
    last.op = "dump_to_csv" =>
        last.ret[1] = <<"handle", "description", "uuid", "properties", "value">>

\* C9: lookup returns the first characteristic, in scan order, whose uuid
\* equals the key, and KeyError exactly when none does; the membership test
\* is true exactly when the lookup succeeds.
C9_FirstMatch ==
    pc = "ready" =>
        LET matches == {p \in Positions : UUID_eq(CharAtPos(p).uuid, last.arg)}
        IN  /\ last.op = "getitem" =>
                   IF matches = {} THEN last.exc = "KeyError"
                   ELSE /\ last.exc = ""
                        /\ \E p \in matches :
                               /\ \A q \in matches : q = p \/ Before(p, q)
                               /\ last.ret = CharAtPos(p)
            /\ last.op = "contains" =>
                   /\ last.ret = (matches # {})
                   /\ last.ret = (View_getitem(heap, db, last.arg).exc = "")

\* C9 witness: two services hold the looked-up UUID at different handles
C9_Witness ==
    /\ pc = "ready" /\ last.op = "getitem" /\ last.exc = ""
    /\ \E p \in Positions, q \in Positions :
           /\ p[1] < q[1]
           /\ UUID_eq(CharAtPos(p).uuid, last.arg) /\ UUID_eq(CharAtPos(q).uuid, last.arg)
           /\ CharAtPos(p).handle # CharAtPos(q).handle

\* C10: the dump fails at the first descriptor whose UUID's integer value is
\* no member of SpecUuidNumber, with the rows before it written; it
\* completes when there is none; each descriptor row's description is the
\* member's name.
C10_DescriptorNames ==
    (pc = "ready" /\ last.op = "dump_to_csv") =>
        LET want == Layout(1)
            bad == {n \in 1..Len(want) : ~want[n].known}
        IN  /\ (last.exc = "") <=> (bad = {})
            /\ bad # {} =>
                   /\ last.exc = "ValueError"
                   /\ \A n \in bad : Len(last.ret) <= n
                   /\ \E n \in bad : Len(last.ret) = n
            /\ \A n \in 1..(Len(last.ret) - 1) :
                   want[n].kind = "descriptor" =>
                       /\ last.ret[n + 1][1] = int_str(want[n].handle)
                       /\ last.ret[n + 1][2] = want[n].label

\* C10 witness: the dump failed at a descriptor that follows a named one
C10_Witness ==
    /\ pc = "ready" /\ last.op = "dump_to_csv" /\ last.exc = "ValueError"
    /\ Len(last.ret) = 5
    /\ last.ret[5][2] = "CHAR_USER_DESCR"

====
